---- MODULE Spec2Model ----
(***************************************************************************)
(* A model of video_downloader.py (VideoSegmentDownloader): the playlist   *)
(* resolver get_segment_urls, the segment acquirer download_segments, the  *)
(* assembly step combine_segments, cleanup, and the pipeline               *)
(* download_video that ties them together.                                 *)
(*                                                                         *)
(* Strings on which the code does character work (URLs, playlist lines)    *)
(* are sequences of one-character strings, so that endswith, startswith,   *)
(* strip, rsplit and the f-string joins are computed, not assumed.  The    *)
(* alphabet is the lower-case ASCII letters, the digits, the blank and     *)
(* the ASCII punctuation; it has no upper-case letter, no control          *)
(* character and no whitespace other than the blank.                       *)
(*                                                                         *)
(* Byte counts are counted in chunks of 8192 bytes (iter_content's         *)
(* chunk_size); the program's ceiling of 10 MB is 1280 such chunks and is  *)
(* scaled down, as are the segment-count ceiling and the interpreter's     *)
(* recursion limit.                                                        *)
(***************************************************************************)
EXTENDS Integers, Sequences, FiniteSets, TLC

\* ------------------------------------------------------------------ bounds

\* self.max_segments (1000 in the program), scaled down
max_segments == 2
\* self.max_segment_size in chunks (1280 in the program), scaled down
max_segment_size == 2
\* the nested calls of get_segment_urls the interpreter's stack holds before
\* the next one overflows it (about 990 with sys.getrecursionlimit() at its
\* default of 1000), scaled down
RecursionLimit == 2
\* the longest playlist document, in lines: one more than the ceiling, so
\* that truncation happens
MaxLines == max_segments + 1

\* ----------------------------------------------------------------- strings

Whitespace == {" "}
Letters == {"a","b","c","d","e","f","g","h","i","j","k","l","m",
            "n","o","p","q","r","s","t","u","v","w","x","y","z"}
Digits == {"0","1","2","3","4","5","6","7","8","9"}

Min(S) == CHOOSE x \in S : \A y \in S : x <= y
Max(S) == CHOOSE x \in S : \A y \in S : x >= y

\* str.startswith
startswith(s, p) == Len(s) >= Len(p) /\ SubSeq(s, 1, Len(p)) = p

\* str.endswith
endswith(s, p) == Len(s) >= Len(p) /\ SubSeq(s, Len(s) - Len(p) + 1, Len(s)) = p

\* str.strip(): leading and trailing whitespace removed
strip(s) ==
    LET keep == {k \in 1..Len(s) : s[k] \notin Whitespace}
    IN  IF keep = {} THEN << >> ELSE SubSeq(s, Min(keep), Max(keep))

\* s.rsplit('/', 1)[0]: everything before the last '/', or s when it has none
rsplit_slash(s) ==
    LET at == {k \in 1..Len(s) : s[k] = "/"}
    IN  IF at = {} THEN s ELSE SubSeq(s, 1, Max(at) - 1)

\* ------------------------------------------------------------ validate_url

\* str.lstrip of urlsplit: leading blanks removed (of the characters urlsplit
\* strips, the blank is the one the alphabet has)
lstrip(s) ==
    LET keep == {k \in 1..Len(s) : s[k] \notin Whitespace}
    IN  IF keep = {} THEN << >> ELSE SubSeq(s, Min(keep), Len(s))

\* str.split(c): the pieces of s between the occurrences of c
RECURSIVE split(_, _)
split(s, c) ==
    LET at == {k \in 1..Len(s) : s[k] = c}
    IN  IF at = {} THEN <<s>>
        ELSE <<SubSeq(s, 1, Min(at) - 1)>> \o split(SubSeq(s, Min(at) + 1, Len(s)), c)

\* c in s
contains(s, c) == \E k \in 1..Len(s) : s[k] = c

scheme_chars == Letters \cup Digits \cup {"+", "-", "."}
HexDigits == Digits \cup {"a", "b", "c", "d", "e", "f"}

\* the position of the first ':' of url, 0 when it has none
colon_at(url) ==
    LET at == {k \in 1..Len(url) : url[k] = ":"}
    IN  IF at = {} THEN 0 ELSE Min(at)

\* urlsplit, on the url it has stripped: a scheme is what precedes the first
\* ':' when it starts with a letter and holds scheme characters only
has_scheme(u) ==
    /\ colon_at(u) > 1
    /\ u[1] \in Letters
    /\ \A k \in 1..(colon_at(u) - 1) : u[k] \in scheme_chars

\* int(octet_str, 10) of a string of digits
DigitValue(d) == CHOOSE n \in 0..9 : <<"0","1","2","3","4","5","6","7","8","9">>[n + 1] = d
RECURSIVE decimal(_)
decimal(s) ==
    IF s = << >> THEN 0
    ELSE 10 * decimal(SubSeq(s, 1, Len(s) - 1)) + DigitValue(s[Len(s)])

\* ipaddress._parse_octet accepts the octet
octet_ok(o) ==
    /\ o # << >>
    /\ \A k \in 1..Len(o) : o[k] \in Digits
    /\ Len(o) <= 3
    /\ (o # <<"0">> => o[1] # "0")
    /\ decimal(o) <= 255

\* ipaddress.IPv4Address(s) does not raise
is_ipv4(s) ==
    /\ ~contains(s, "/")
    /\ Len(split(s, ".")) = 4
    /\ \A k \in 1..4 : octet_ok(split(s, ".")[k])

\* ipaddress._parse_hextet accepts the hextet
hextet_ok(h) ==
    /\ h # << >>
    /\ \A k \in 1..Len(h) : h[k] \in HexDigits
    /\ Len(h) <= 4

\* the parts of _ip_int_from_string after an IPv4-style last part has been
\* replaced by its two hextets
ipv6_parts(parts) ==
    IF contains(parts[Len(parts)], ".")
    THEN SubSeq(parts, 1, Len(parts) - 1) \o <<<<"0">>, <<"0">>>>
    ELSE parts

\* the checks of _ip_int_from_string on the parts: at most 9 of them, at
\* most one '::', a leading or trailing ':' only as part of the '::', the
\* number of hextets, and each hextet
ipv6_parts_ok(parts) ==
    LET n == Len(parts)
        skips == {i \in 2..(n - 1) : parts[i] = << >>}
        skip == Min(skips)
        hi == IF parts[1] = << >> THEN skip - 2 ELSE skip - 1
        lo == IF parts[n] = << >> THEN n - skip - 1 ELSE n - skip
    IN  /\ n <= 9
        /\ Cardinality(skips) <= 1
        /\ IF skips # {}
           THEN /\ parts[1] = << >> => hi = 0
                /\ parts[n] = << >> => lo = 0
                /\ 8 - (hi + lo) >= 1
                /\ \A k \in 1..hi : hextet_ok(parts[k])
                /\ \A k \in (n - lo + 1)..n : hextet_ok(parts[k])
           ELSE /\ n = 8
                /\ \A k \in 1..8 : hextet_ok(parts[k])

\* ipaddress._BaseV6._ip_int_from_string(addr) does not raise
ipv6_addr_ok(addr) ==
    LET parts == split(addr, ":")
    IN  /\ Len(parts) >= 3
        /\ contains(parts[Len(parts)], ".") => is_ipv4(parts[Len(parts)])
        /\ ipv6_parts_ok(ipv6_parts(parts))

\* ipaddress.IPv6Address(s) does not raise: no '/', a scope id after '%'
\* that is not empty and has no '%', and an address before it
is_ipv6(s) ==
    LET at == {k \in 1..Len(s) : s[k] = "%"}
    IN  /\ ~contains(s, "/")
        /\ IF at = {} THEN ipv6_addr_ok(s)
           ELSE /\ Min(at) < Len(s)
                /\ Cardinality(at) = 1
                /\ ipv6_addr_ok(SubSeq(s, 1, Min(at) - 1))

\* re.match(r"\Av[a-fA-F0-9]+\..+\Z", host) for a host that starts with 'v'
ipvfuture_ok(host) ==
    LET other == {k \in 2..Len(host) : host[k] \notin HexDigits}
    IN  /\ other # {}
        /\ Min(other) >= 3
        /\ host[Min(other)] = "."
        /\ Len(host) > Min(other)

\* _check_bracketed_host(host) does not raise: an IPvFuture address, or an
\* address ip_address takes that is no IPv4 address
bracketed_host_ok(host) ==
    IF startswith(host, <<"v">>) THEN ipvfuture_ok(host)
    ELSE ~is_ipv4(host) /\ is_ipv6(host)

\* netloc.partition('[')[2].partition(']')[0]
bracketed_host(netloc) ==
    LET open == Min({k \in 1..Len(netloc) : netloc[k] = "["})
        after == SubSeq(netloc, open + 1, Len(netloc))
        close == {k \in 1..Len(after) : after[k] = "]"}
    IN  IF close = {} THEN after ELSE SubSeq(after, 1, Min(close) - 1)

\* urlsplit raises ValueError for the netloc: one bracket without the
\* other, or a bracketed host that is no IPv6 or IPvFuture address
netloc_raises(netloc) ==
    \/ contains(netloc, "[") # contains(netloc, "]")
    \/ /\ contains(netloc, "[")
       /\ contains(netloc, "]")
       /\ ~bracketed_host_ok(bracketed_host(netloc))

\* the network location of what follows the scheme: it follows '//' and
\* ends before the first of '/', '?' and '#'
splitnetloc(rest) ==
    LET ends == {k \in 3..Len(rest) : rest[k] \in {"/", "?", "#"}}
    IN  IF startswith(rest, <<"/","/">>)
        THEN SubSeq(rest, 3, IF ends = {} THEN Len(rest) ELSE Min(ends) - 1)
        ELSE << >>

\* urlparse(url): whether it raises ValueError, and the scheme and netloc of
\* its result when it does not
urlparse(url) ==
    LET u == lstrip(url)
        scheme == IF has_scheme(u) THEN SubSeq(u, 1, colon_at(u) - 1) ELSE << >>
        rest == IF has_scheme(u) THEN SubSeq(u, colon_at(u) + 1, Len(u)) ELSE u
        netloc == splitnetloc(rest)
    IN  IF netloc_raises(netloc)
        THEN [raises |-> TRUE, scheme |-> << >>, netloc |-> << >>]
        ELSE [raises |-> FALSE, scheme |-> scheme, netloc |-> netloc]

\* a faulty variant of validate_url: every URL is accepted
validate_url_always(url) == TRUE

\* validate_url: scheme http or https and a non-empty network location;
\* False from the except clause when urlparse raises
validate_url(url) ==
    /\ ~urlparse(url).raises
    /\ urlparse(url).scheme \in {<<"h","t","t","p">>, <<"h","t","t","p","s">>}
    /\ urlparse(url).netloc # << >>

\* ------------------------------------------------------------------ inputs

\* playlist URLs a caller passes in
ValidUrls == {<<"h","t","t","p","s",":","/","/","x","/","v","/","p",".","m","3","u","8">>}
InvalidUrls == {<<"f","t","p",":","/","/","x","/","p",".","m","3","u","8">>, <<"p",".","m","3","u","8">>, <<"h","t","t","p",":","/","/","/","p",".","m","3","u","8">>,
                <<"h","t","t","p",":","/","/","[","x","/","p",".","m","3","u","8">>}
UrlPool == ValidUrls \cup InvalidUrls

\* the URLs get_segment_urls is called with: those, and one with a leading
\* blank, which urlparse strips
ResolveUrls == UrlPool \cup {<<" ","h","t","t","p","s",":","/","/","x","/","v","/","p",".","m","3","u","8">>}

\* the lines playlist documents are made of: a tag, a blank line, segment
\* entries (relative and indented, rooted at the server) and nested playlist
\* references (relative, in a subdirectory; absolute)
SegmentLines == {<<" ","a",".","t","s">>, <<"/","c",".","t","s">>}
PlaylistLines == {<<"s","/","n",".","m","3","u","8">>, <<"h","t","t","p",":","/","/","y","/","m",".","m","3","u","8">>}
OtherLines == {<<"#","x">>, << >>}
LinePool == SegmentLines \cup PlaylistLines \cup OtherLines

\* response.text.splitlines() of every document a server may answer with
Documents == UNION {[1..n -> LinePool] : n \in 0..MaxLines}

\* self.headers
DefaultHeaders ==
    { <<"User-Agent", "Mozilla/5.0 (Macintosh; Intel Mac OS X 10.15; rv:137.0) Gecko/20100101 Firefox/137.0">>,
      <<"Accept", "*/*">>,
      <<"Accept-Language", "en-US,en;q=0.5">> }

\* the custom_headers argument: None, an empty dict, a dict with one entry
NoHeaders == [given |-> FALSE, map |-> {}]
HeaderArgs == { NoHeaders,
                [given |-> TRUE, map |-> {}],
                [given |-> TRUE, map |-> { <<"Cookie", "k">> }] }

\* the custom_headers and generate_transcript arguments of the calls of
\* download_video: every header argument with no transcript requested, and
\* no header argument with one requested
VideoCalls ==
    {[headers |-> h, transcript |-> FALSE] : h \in HeaderArgs}
        \cup {[headers |-> NoHeaders, transcript |-> TRUE]}

effective_headers_merged(ch) ==
    IF ch.given THEN ch.map \cup DefaultHeaders ELSE DefaultHeaders

\* custom_headers if custom_headers else self.headers
effective_headers(ch) ==
    IF ch.given /\ ch.map # {} THEN ch.map ELSE DefaultHeaders

\* -------------------------------------------------------- get_segment_urls

ends_ts(line) == endswith(line, <<".","t","s">>)
ends_m3u8(line) == endswith(line, <<".","m","3","u","8">>)

\* a faulty variant of extract_segments: the lines are kept as they are
extract_segments_unstripped(content) == SelectSeq(content, ends_ts)

\* the lines ending in .ts, stripped, in document order
extract_segments(content) ==
    LET hits == SelectSeq(content, ends_ts)
    IN  [k \in 1..Len(hits) |-> strip(hits[k])]

\* the first line ending in .m3u8, which the scan of the document returns on
first_m3u8(content) == Head(SelectSeq(content, ends_m3u8))

has_m3u8(content) == SelectSeq(content, ends_m3u8) # << >>

\* the nested playlist URL: the stripped line, joined to the directory of
\* the current playlist URL unless it starts with http
nested_url(line, m3u8_url) ==
    IF startswith(strip(line), <<"h","t","t","p">>)
    THEN strip(line)
    ELSE rsplit_slash(m3u8_url) \o <<"/">> \o strip(line)

\* a faulty variant of limit_segments: the list is not truncated
limit_segments_none(segs) == segs

\* segments[:self.max_segments]
limit_segments(segs) ==
    SubSeq(segs, 1, IF Len(segs) < max_segments THEN Len(segs) ELSE max_segments)

\* ------------------------------------------------------- download_segments

\* the hard-coded origin of entries that start with '/'
FixedOrigin == <<"h","t","t","p","s",":","/","/","e","m","b","e","d","-","c","l","o","u","d","f","r","o","n","t",".","w","i","s","t","i","a",".","c","o","m">>

\* a faulty variant of segment_url: every entry is joined to the base URL
segment_url_joined(segment, base) == base \o <<"/">> \o segment

\* the URL requested for a segment entry
segment_url(segment, base) ==
    IF startswith(segment, <<"/">>)
    THEN FixedOrigin \o segment
    ELSE base \o <<"/">> \o segment

\* What a server may answer to a segment request.  status "error" is a
\* RequestException of requests.get or raise_for_status (network error,
\* timeout, non-success status).  header says whether the content-length
\* header is absent, holds no integer ("bad") or holds the number of chunks
\* `length`.  body is the number of chunks iter_content yields; with
\* stream_error it then raises a RequestException instead of ending.
RequestError ==
    [status |-> "error", header |-> "absent", length |-> 0, body |-> 0,
     stream_error |-> FALSE]
OkResponse(h, n, b, e) ==
    [status |-> "ok", header |-> h, length |-> n, body |-> b, stream_error |-> e]
\* a failed request; a content-length that is no integer; a declared length
\* over the ceiling; a declared length and a body at the ceiling; a body over
\* the ceiling with no declared length; a body cut short by a stream error
SegResponses ==
    { RequestError,
      OkResponse("bad", 0, 0, FALSE),
      OkResponse("number", max_segment_size + 1, 0, FALSE),
      OkResponse("number", max_segment_size, max_segment_size, FALSE),
      OkResponse("absent", 0, max_segment_size + 1, FALSE),
      OkResponse("absent", 0, 1, TRUE) }

\* int(segment_response.headers.get('content-length', 0)) raises ValueError
bad_content_length(resp) == resp.header = "bad"

\* int(segment_response.headers.get('content-length', 0))
declared_length(resp) ==
    IF resp.header = "number" THEN resp.length ELSE 0

\* content_length > self.max_segment_size
declared_too_large(resp) == declared_length(resp) > max_segment_size

\* the chunks written to the segment file: each chunk is written before the
\* running total is compared with the ceiling, so the chunk that crosses it
\* is in the file
chunks_written(resp) ==
    IF resp.body > max_segment_size THEN max_segment_size + 1 ELSE resp.body

\* a faulty variant of no_segments: the empty list is not refused
no_segments_never(segs) == FALSE

\* if not segments
no_segments(segs) == segs = << >>

\* a faulty variant of on_request_error: a failed request ends the batch
on_request_error_abort == "abort"

\* except requests.exceptions.RequestException: continue
on_request_error == "continue"

\* -------------------------------------------------------- combine_segments

\* What the external assembly run may do: exit 0, exit non-zero
\* (CalledProcessError), exceed the 300 s timeout (TimeoutExpired), or not
\* be installed (FileNotFoundError).
AssemblyOutcomes == {"ok", "nonzero", "timeout", "missing"}

\* for i in range(len(list(segments_dir.glob("segment_*.ts")))): the indices
\* 0 .. (number of segment files) - 1 written to file_list.txt
concat_list(present) == [k \in 1..Cardinality(present) |-> k - 1]

\* a faulty variant of combine_result: the path is returned whatever the run did
combine_result_always(outcome) == "path"

\* combine_segments returns output_file when subprocess.run returned, and
\* None from each except clause
combine_result(outcome) == IF outcome = "ok" THEN "path" ELSE "None"

\* ------------------------------------------------------ generate_transcript

\* valid_models
valid_models == {"tiny", "base", "small", "medium", "large"}

valid_model_any(m) == TRUE

\* model_size in valid_models
valid_model(m) == m \in valid_models

\* the model_size default of generate_transcript, which download_video uses
default_model_size == "medium"

\* the model transcribe_videos loads
script_model_size == "base"

\* the videos downloads/ may hold
VideoNames == {"a", "b"}

\* what a text file holds after writing it raised: what it held before
\* (open raised), nothing, or a part of the text
FailedWrites == {"unopened", "empty", "partial"}

\* the model selectors a caller passes in
ModelPool == valid_models \cup {"invalid", "Medium", "large-v2", ""}

\* ------------------------------------------------------- parse_curl_command

\* str.strip("'"): leading and trailing quote characters removed
strip_quotes(s) ==
    LET keep == {k \in 1..Len(s) : s[k] # "'"}
    IN  IF keep = {} THEN << >> ELSE SubSeq(s, Min(keep), Max(keep))

\* shlex.split over the characters of the pools (no backslash, no double
\* quote): blanks separate tokens, a single quote opens a stretch that runs
\* to the next single quote, taken as it is and joined to the token around
\* it.  k is the position read, token the token being built, open whether a
\* token is being built, quoted whether a quote is open, out the tokens
\* finished.  The end of the text inside a quote is the ValueError
\* "No closing quotation".
RECURSIVE shlex_scan(_, _, _, _, _, _)
shlex_scan(s, k, token, open, quoted, out) ==
    IF k > Len(s)
    THEN [ok |-> ~quoted, parts |-> IF open THEN Append(out, token) ELSE out]
    ELSE IF quoted
    THEN IF s[k] = "'"
         THEN shlex_scan(s, k + 1, token, TRUE, FALSE, out)
         ELSE shlex_scan(s, k + 1, Append(token, s[k]), TRUE, TRUE, out)
    ELSE IF s[k] = "'"
    THEN shlex_scan(s, k + 1, token, TRUE, TRUE, out)
    ELSE IF s[k] \in Whitespace
    THEN IF open
         THEN shlex_scan(s, k + 1, << >>, FALSE, FALSE, Append(out, token))
         ELSE shlex_scan(s, k + 1, << >>, FALSE, FALSE, out)
    ELSE shlex_scan(s, k + 1, Append(token, s[k]), TRUE, FALSE, out)

\* parts = shlex.split(curl_command)
shlex_split(s) == shlex_scan(s, 1, << >>, FALSE, FALSE, << >>)

\* curl_command.strip(), and without a leading 'curl ' when it has one
drop_curl(cmd) ==
    IF startswith(strip(cmd), <<"c","u","r","l"," ">>)
    THEN strip(SubSeq(strip(cmd), 6, Len(strip(cmd))))
    ELSE strip(cmd)

\* the url value None
NoUrl == [present |-> FALSE, text |-> << >>]

\* next((part for part in parts if not part.startswith('-')), None)
first_url(parts) ==
    LET at == {k \in 1..Len(parts) : ~startswith(parts[k], <<"-">>)}
    IN  IF at = {} THEN NoUrl ELSE [present |-> TRUE, text |-> parts[Min(at)]]

\* header = parts[i + 1].strip("'")
header_at(parts, i) == strip_quotes(parts[i + 1])

\* ':' in header
has_colon(header) == colon_at(header) > 0

\* key, value = header.split(':', 1), each stripped
header_key(header) == strip(SubSeq(header, 1, colon_at(header) - 1))
header_value(header) == strip(SubSeq(header, colon_at(header) + 1, Len(header)))

\* a '-H' that is the last token: parts[i + 1] raises IndexError
dangling_flag(parts) == parts # << >> /\ parts[Len(parts)] = <<"-","H">>

header_map_all(parts) ==
    {<<header_key(header_at(parts, i)), header_value(header_at(parts, i))>> :
        i \in {k \in 1..(Len(parts) - 1) : parts[k] = <<"-","H">>}}

\* headers: the loop over the '-H' tokens; a header without a colon is
\* skipped and a later header replaces an earlier one of the same name
header_map(parts) ==
    LET at == {i \in 1..(Len(parts) - 1) :
                  parts[i] = <<"-","H">> /\ has_colon(header_at(parts, i))}
        last == {i \in at : \A j \in at :
                    j > i => header_key(header_at(parts, j)) # header_key(header_at(parts, i))}
    IN  {<<header_key(header_at(parts, i)), header_value(header_at(parts, i))>> : i \in last}

\* return {'url': None, 'headers': {}} of the except clause
EmptyResult == [returned |-> TRUE, url |-> NoUrl, headers |-> {}]

\* parse_curl_command has not returned
NotParsed == [returned |-> FALSE, url |-> NoUrl, headers |-> {}]

\* parse_curl_command(curl_command)
parse_curl_command(cmd) ==
    LET lexed == shlex_split(drop_curl(cmd))
    IN  IF ~lexed.ok \/ dangling_flag(lexed.parts)
        THEN EmptyResult
        ELSE [returned |-> TRUE, url |-> first_url(lexed.parts),
              headers |-> header_map(lexed.parts)]

\* the most -H pairs of a captured command
MaxHeaders == 2

\* the tokens captured commands are made of, as a browser writes them: the
\* quoted URL, and -H pairs with a space after the colon, without one and
\* with a second colon in the value, and a pair without a colon
UrlToken == <<"'","h","t","t","p","s",":","/","/","x","/","s",".","t","s","'">>
HeaderFlags == {<<"-","H"," ","'","A",":"," ","b","'">>, <<"-","H"," ","'","R",":","h","t","t","p",":","/","/","y","'">>, <<"-","H"," ","'","e","'">>}

\* the token sequences: one URL token among up to MaxHeaders -H pairs
CurlShapes ==
    UNION {{sh \in [1..(n + 1) -> {UrlToken} \cup HeaderFlags] :
               Cardinality({k \in 1..(n + 1) : sh[k] = UrlToken}) = 1} :
           n \in 0..MaxHeaders}

\* ' '.join(items)
RECURSIVE join_blank(_)
join_blank(items) ==
    IF Len(items) = 1 THEN items[1]
    ELSE items[1] \o <<" ">> \o join_blank(Tail(items))

CurlPrefixes == {<<"c","u","r","l"," ">>, << >>}

\* the curl_command arguments: the captured commands, and each with a quote
\* left open at its end or with a -H that nothing follows
CurlCommands ==
    LET whole == {p \o join_blank(sh) : p \in CurlPrefixes, sh \in CurlShapes}
    IN  whole \cup {c \o <<" ","'","x">> : c \in whole} \cup {c \o <<" ","-","H">> : c \in whole}

\* ------------------------------------------------------------------- state

VARIABLES
    entry,            \* the method the caller invoked
    pc,               \* where the call is
    m3u8_url,         \* download_video / get_segment_urls: the URL passed in
    custom_headers,   \* the custom_headers argument
    want_transcript,  \* download_video: the generate_transcript argument
    cur_url,          \* get_segment_urls: m3u8_url of the current frame
    depth,            \* get_segment_urls: frames on the stack
    content,          \* get_segment_urls: the lines of the fetched document
    segments,         \* the list get_segment_urls returned / download_segments got
    gs_status,        \* get_segment_urls: "running", "returned", "raised"
    gs_end,           \* get_segment_urls: the branch that ended the call
    requests,         \* every requests.get issued, in order
    base_url,         \* download_segments: base_url
    idx,              \* download_segments: the loop index i
    dir_created,      \* tempfile.mkdtemp returned a working area
    dir_exists,       \* the working area is on disk
    files,            \* the segment files of the working area, by index
    responses,        \* the answers to the segment requests, in order
    ds_ret,           \* download_segments: "pending", "dir", "None"
    file_list,        \* combine_segments: the indices written to file_list.txt
    asm_runs,         \* the outcomes of the assembly runs, in order
    combine_ret,      \* combine_segments: "pending", "path", "None"
    output_exists,    \* output_file.exists()
    transcripts,      \* the generate_transcript calls download_video made, in order
    ret,              \* download_video: "pending", "path", "None"
    video_exists,     \* generate_transcript: video_path.exists()
    model_size,       \* generate_transcript: the model_size argument
    models_loaded,    \* the whisper.load_model calls made, in order
    transcribe_calls, \* the number of model.transcribe calls made
    transcript_file,  \* the transcript file: "absent", "old", "empty", "partial",
                      \* "written"
    gt_ret,           \* generate_transcript: "pending", "path", "None"
    curl_command,     \* parse_curl_command: the curl_command argument
    parsed,           \* parse_curl_command: the dictionary returned
    os_error,         \* the file operation that raised OSError: "none",
                      \* "segment_file", "file_list"
    downloads,        \* transcribe_videos: the videos downloads/*.mp4
    tv_pending,       \* transcribe_videos: the videos the loop has not reached
    tv_video,         \* transcribe_videos: the video of the iteration
    tv_files,         \* transcribe_videos: the transcript files it opened, each
                      \* "written", "empty" or "partial"
    tv_status         \* transcribe_videos: "idle", "running", "returned", "raised"

in_vars == <<entry, m3u8_url, custom_headers, want_transcript>>
gs_vars == <<cur_url, depth, content, gs_status, gs_end>>
ds_vars == <<base_url, idx, dir_created, files, responses, ds_ret>>
cs_vars == <<file_list, asm_runs, combine_ret, output_exists>>
gt_vars == <<video_exists, model_size, models_loaded, transcribe_calls,
             transcript_file, gt_ret>>
parse_vars == <<curl_command, parsed>>
tv_vars == <<downloads, tv_pending, tv_video, tv_files, tv_status>>
vars == <<entry, pc, m3u8_url, custom_headers, want_transcript, cur_url, depth,
          content, segments, gs_status, gs_end, requests, base_url, idx,
          dir_created, dir_exists, files, responses, ds_ret, file_list,
          asm_runs, combine_ret, output_exists, transcripts, ret,
          video_exists, model_size, models_loaded, transcribe_calls,
          transcript_file, gt_ret, curl_command, parsed, os_error,
          downloads, tv_pending, tv_video, tv_files, tv_status>>

\* the state common to every entry point before the call
Fresh ==
    /\ depth = 0 /\ content = << >> /\ gs_status = "running" /\ gs_end = "none"
    /\ requests = << >> /\ idx = 0
    /\ dir_created = FALSE /\ dir_exists = FALSE
    /\ files = << >> /\ responses = << >> /\ ds_ret = "pending"
    /\ file_list = << >> /\ asm_runs = << >> /\ combine_ret = "pending"
    /\ output_exists = FALSE /\ transcripts = << >> /\ ret = "pending"
    /\ models_loaded = << >> /\ transcribe_calls = 0 /\ gt_ret = "pending"
    /\ parsed = NotParsed
    /\ os_error = "none"

\* no call of generate_transcript has been made: its arguments are unset
NoTranscriptCall ==
    /\ video_exists = FALSE /\ model_size = "unset" /\ transcript_file = "absent"

\* no call of parse_curl_command is made
NoParseCall == curl_command = << >>

\* no call of transcribe_videos is made
NoScriptCall ==
    /\ downloads = {} /\ tv_pending = {} /\ tv_video = "none"
    /\ tv_files = << >> /\ tv_status = "idle"

\* a call of download_video(m3u8_url, output_name, custom_headers, generate_transcript)
InitVideo ==
    /\ entry = "download_video" /\ pc = "gs_frame"
    /\ m3u8_url \in UrlPool /\ cur_url = m3u8_url
    /\ \E call \in VideoCalls :
        /\ custom_headers = call.headers
        /\ want_transcript = call.transcript
    /\ segments = << >> /\ base_url = << >>
    /\ NoTranscriptCall /\ NoParseCall
    /\ NoScriptCall
    /\ Fresh

\* a call of get_segment_urls(m3u8_url, custom_headers)
InitResolve ==
    /\ entry = "get_segment_urls" /\ pc = "gs_frame"
    /\ m3u8_url \in ResolveUrls /\ cur_url = m3u8_url
    /\ custom_headers \in HeaderArgs /\ want_transcript = FALSE
    /\ segments = << >> /\ base_url = << >>
    /\ NoTranscriptCall /\ NoParseCall
    /\ NoScriptCall
    /\ Fresh

\* the segment lists and base URLs download_segments is called with
SegmentPool == {<<"a",".","t","s">>, <<"b",".","t","s">>, <<"/","c",".","t","s">>}
SegmentLists == UNION {[1..n -> SegmentPool] : n \in 0..max_segments}
BasePool == {<<"h","t","t","p","s",":","/","/","x","/","v">>, <<"h","t","t","p",":","/","/","y">>}

\* a call of download_segments(segments, base_url, output_name, custom_headers)
InitAcquire ==
    /\ entry = "download_segments" /\ pc = "ds_entry"
    /\ m3u8_url = << >> /\ cur_url = << >>
    /\ custom_headers \in HeaderArgs /\ want_transcript = FALSE
    /\ segments \in SegmentLists /\ base_url \in BasePool
    /\ NoTranscriptCall /\ NoParseCall
    /\ NoScriptCall
    /\ Fresh

\* a call of generate_transcript(video_path, model_size), with or without a
\* transcript file of an earlier run
InitTranscribe ==
    /\ entry = "generate_transcript" /\ pc = "gt_entry"
    /\ m3u8_url = << >> /\ cur_url = << >>
    /\ custom_headers = NoHeaders /\ want_transcript = FALSE
    /\ segments = << >> /\ base_url = << >>
    /\ video_exists \in BOOLEAN /\ model_size \in ModelPool
    /\ transcript_file \in {"absent", "old"}
    /\ NoParseCall
    /\ NoScriptCall
    /\ Fresh

\* a call of parse_curl_command(curl_command)
InitParse ==
    /\ entry = "parse_curl_command" /\ pc = "pc_entry"
    /\ m3u8_url = << >> /\ cur_url = << >>
    /\ custom_headers = NoHeaders /\ want_transcript = FALSE
    /\ segments = << >> /\ base_url = << >>
    /\ curl_command \in CurlCommands
    /\ NoTranscriptCall
    /\ NoScriptCall
    /\ Fresh

\* a call of transcribe_videos(), with downloads/ holding some videos
InitTranscribeVideos ==
    /\ entry = "transcribe_videos" /\ pc = "tv_entry"
    /\ m3u8_url = << >> /\ cur_url = << >>
    /\ custom_headers = NoHeaders /\ want_transcript = FALSE
    /\ segments = << >> /\ base_url = << >>
    /\ downloads \in SUBSET VideoNames /\ tv_pending = downloads
    /\ tv_video = "none" /\ tv_files = << >> /\ tv_status = "running"
    /\ NoTranscriptCall /\ NoParseCall
    /\ Fresh

\* requests.get(url, headers=headers, ...)
Request(url, stream) ==
    [url |-> url, headers |-> effective_headers(custom_headers), stream |-> stream]

\* ------------------------------------------------ get_segment_urls, a frame

\* the frame returns `result` to the caller of the outermost frame (a nested
\* frame's result is returned unchanged by every frame above it)
GS_Return(result, why) ==
    /\ segments' = result
    /\ gs_status' = "returned"
    /\ gs_end' = why
    /\ pc' = "gs_done"

\* if not self.validate_url(m3u8_url): return []
GS_InvalidUrl ==
    /\ pc = "gs_frame"
    /\ ~validate_url(cur_url)
    /\ GS_Return(<< >>, "invalid_url")
    /\ depth' = depth + 1
    /\ UNCHANGED <<in_vars, os_error, tv_vars, cur_url, content, requests, dir_exists, ds_vars,
                   cs_vars, transcripts, gt_vars, parse_vars, ret>>

\* requests.get or raise_for_status raises a RequestException: return []
GS_RequestError ==
    /\ pc = "gs_frame"
    /\ validate_url(cur_url)
    /\ requests' = Append(requests, Request(cur_url, FALSE))
    /\ GS_Return(<< >>, "request_error")
    /\ depth' = depth + 1
    /\ UNCHANGED <<in_vars, os_error, tv_vars, cur_url, content, dir_exists, ds_vars, cs_vars,
                   transcripts, gt_vars, parse_vars, ret>>

\* the document has lines ending in .ts: return segments[:self.max_segments]
GS_Segments ==
    /\ pc = "gs_frame"
    /\ validate_url(cur_url)
    /\ \E doc \in Documents :
        /\ extract_segments(doc) # << >>
        /\ content' = doc
        /\ GS_Return(limit_segments(extract_segments(doc)), "segments")
    /\ requests' = Append(requests, Request(cur_url, FALSE))
    /\ depth' = depth + 1
    /\ UNCHANGED <<in_vars, os_error, tv_vars, cur_url, dir_exists, ds_vars, cs_vars, transcripts, gt_vars, parse_vars, ret>>

\* no line ends in .ts and none in .m3u8: return segments[:self.max_segments]
GS_NoReferences ==
    /\ pc = "gs_frame"
    /\ validate_url(cur_url)
    /\ \E doc \in Documents :
        /\ extract_segments(doc) = << >>
        /\ ~has_m3u8(doc)
        /\ content' = doc
        /\ GS_Return(limit_segments(extract_segments(doc)), "no_references")
    /\ requests' = Append(requests, Request(cur_url, FALSE))
    /\ depth' = depth + 1
    /\ UNCHANGED <<in_vars, os_error, tv_vars, cur_url, dir_exists, ds_vars, cs_vars, transcripts, gt_vars, parse_vars, ret>>

\* no line ends in .ts and one ends in .m3u8:
\* return self.get_segment_urls(master_url, custom_headers).  The nested
\* frame has its own locals: its content is not fetched yet.
GS_Recurse ==
    /\ pc = "gs_frame"
    /\ validate_url(cur_url)
    /\ depth + 1 < RecursionLimit
    /\ \E doc \in Documents :
        /\ extract_segments(doc) = << >>
        /\ has_m3u8(doc)
        /\ cur_url' = nested_url(first_m3u8(doc), cur_url)
    /\ content' = << >>
    /\ requests' = Append(requests, Request(cur_url, FALSE))
    /\ depth' = depth + 1
    /\ UNCHANGED <<in_vars, os_error, tv_vars, pc, segments, gs_status, gs_end, dir_exists, ds_vars,
                   cs_vars, transcripts, gt_vars, parse_vars, ret>>

\* the same, with the stack full: the nested call raises RecursionError where
\* nothing catches it (in requests.get or a logger call inside the try, which
\* catches RequestException only), and the error leaves every frame
GS_RecursionError ==
    /\ pc = "gs_frame"
    /\ validate_url(cur_url)
    /\ depth + 1 = RecursionLimit
    /\ \E doc \in Documents :
        /\ extract_segments(doc) = << >>
        /\ has_m3u8(doc)
        /\ content' = doc
    /\ requests' = Append(requests, Request(cur_url, FALSE))
    /\ depth' = depth + 1
    /\ gs_status' = "raised"
    /\ gs_end' = "recursion_error"
    /\ pc' = "gs_done"
    /\ UNCHANGED <<in_vars, os_error, tv_vars, cur_url, segments, dir_exists, ds_vars, cs_vars,
                   transcripts, gt_vars, parse_vars, ret>>

\* the same, with the stack full: the RecursionError arises inside urlparse,
\* where validate_url's except Exception turns it into False, and the nested
\* call returns [] as for an invalid URL
GS_RecursionSwallowed ==
    /\ pc = "gs_frame"
    /\ validate_url(cur_url)
    /\ depth + 1 = RecursionLimit
    /\ \E doc \in Documents :
        /\ extract_segments(doc) = << >>
        /\ has_m3u8(doc)
        /\ content' = doc
    /\ requests' = Append(requests, Request(cur_url, FALSE))
    /\ depth' = depth + 1
    /\ GS_Return(<< >>, "recursion_swallowed")
    /\ UNCHANGED <<in_vars, os_error, tv_vars, cur_url, dir_exists, ds_vars, cs_vars, transcripts, gt_vars, parse_vars, ret>>

\* --------------------------------------------------------- download_segments

\* if not segments: return None
DS_NoSegments ==
    /\ pc = "ds_entry"
    /\ no_segments(segments)
    /\ ds_ret' = "None"
    /\ pc' = "ds_done"
    /\ UNCHANGED <<in_vars, os_error, tv_vars, gs_vars, segments, requests, base_url, idx,
                   dir_created, dir_exists, files, responses, cs_vars,
                   transcripts, gt_vars, parse_vars, ret>>

\* tempfile.mkdtemp(prefix="video_segments_") creates the working area
DS_Mkdtemp ==
    /\ pc = "ds_entry"
    /\ ~no_segments(segments)
    /\ dir_created' = TRUE
    /\ dir_exists' = TRUE
    /\ idx' = 0
    /\ pc' = "ds_loop"
    /\ UNCHANGED <<in_vars, os_error, tv_vars, gs_vars, segments, requests, base_url, files,
                   responses, ds_ret, cs_vars, transcripts, gt_vars, parse_vars, ret>>

\* tempfile.mkdtemp raises: except Exception: return None
DS_MkdtempFails ==
    /\ pc = "ds_entry"
    /\ ~no_segments(segments)
    /\ ds_ret' = "None"
    /\ pc' = "ds_done"
    /\ UNCHANGED <<in_vars, os_error, tv_vars, gs_vars, segments, requests, base_url, idx,
                   dir_created, dir_exists, files, responses, cs_vars,
                   transcripts, gt_vars, parse_vars, ret>>

\* one iteration of the loop requests segments[i] and gets resp
DS_Issue(resp) ==
    /\ pc = "ds_loop"
    /\ idx < Len(segments)
    /\ requests' = Append(requests, Request(segment_url(segments[idx + 1], base_url), TRUE))
    /\ responses' = Append(responses, resp)

\* continue: the next iteration
DS_Continue ==
    /\ idx' = idx + 1
    /\ pc' = pc
    /\ ds_ret' = ds_ret

\* an exception that leaves the loop: except Exception: return None
DS_Abort ==
    /\ idx' = idx
    /\ pc' = "ds_done"
    /\ ds_ret' = "None"

\* requests.get or raise_for_status raises a RequestException
DS_RequestError ==
    /\ DS_Issue(RequestError)
    /\ IF on_request_error = "continue" THEN DS_Continue ELSE DS_Abort
    /\ UNCHANGED <<in_vars, os_error, tv_vars, gs_vars, segments, base_url, dir_created,
                   dir_exists, files, cs_vars, transcripts, gt_vars, parse_vars, ret>>

\* the content-length header is no integer: int() raises ValueError
DS_BadContentLength ==
    /\ \E resp \in SegResponses :
        /\ resp.status = "ok"
        /\ bad_content_length(resp)
        /\ DS_Issue(resp)
    /\ DS_Abort
    /\ UNCHANGED <<in_vars, os_error, tv_vars, gs_vars, segments, base_url, dir_created,
                   dir_exists, files, cs_vars, transcripts, gt_vars, parse_vars, ret>>

\* the declared length exceeds the ceiling: continue, nothing written
DS_DeclaredTooLarge ==
    /\ \E resp \in SegResponses :
        /\ resp.status = "ok"
        /\ ~bad_content_length(resp)
        /\ declared_too_large(resp)
        /\ DS_Issue(resp)
    /\ DS_Continue
    /\ UNCHANGED <<in_vars, os_error, tv_vars, gs_vars, segments, base_url, dir_created,
                   dir_exists, files, cs_vars, transcripts, gt_vars, parse_vars, ret>>

segment_file_packed(i) == Cardinality(DOMAIN files)

\* segments_dir / f"segment_{i:03d}.ts": the file is numbered by the loop
\* index of enumerate(segments)
segment_file(i) == i

\* the body is streamed to segment_{i:03d}.ts: the file is opened for
\* writing and holds the chunks written, whether the stream ended, the
\* ceiling was crossed (break) or iter_content raised a RequestException
DS_Stream ==
    /\ \E resp \in SegResponses :
        /\ resp.status = "ok"
        /\ ~bad_content_length(resp)
        /\ ~declared_too_large(resp)
        /\ DS_Issue(resp)
        /\ files' = [j \in DOMAIN files \cup {segment_file(idx)} |->
                        IF j = segment_file(idx)
                        THEN [request |-> Len(requests) + 1, chunks |-> chunks_written(resp)]
                        ELSE files[j]]
    /\ DS_Continue
    /\ UNCHANGED <<in_vars, os_error, tv_vars, gs_vars, segments, base_url, dir_created,
                   dir_exists, cs_vars, transcripts, gt_vars, parse_vars, ret>>

\* open(segment_path, 'wb') or f.write raises OSError, which is no
\* RequestException: except Exception: return None.  No file is there when
\* open raised; the file holds the chunks written before when f.write raised.
DS_WriteFails ==
    /\ \E resp \in SegResponses :
        /\ resp.status = "ok"
        /\ ~bad_content_length(resp)
        /\ ~declared_too_large(resp)
        /\ DS_Issue(resp)
        /\ \/ files' = files
           \/ \E written \in 0..(chunks_written(resp) - 1) :
                files' = [j \in DOMAIN files \cup {segment_file(idx)} |->
                             IF j = segment_file(idx)
                             THEN [request |-> Len(requests) + 1, chunks |-> written]
                             ELSE files[j]]
    /\ os_error' = "segment_file"
    /\ DS_Abort
    /\ UNCHANGED <<in_vars, gs_vars, segments, base_url, dir_created,
                   dir_exists, cs_vars, transcripts, gt_vars, parse_vars, ret,
                   tv_vars>>

\* the loop is over: return segments_dir
DS_Return ==
    /\ pc = "ds_loop"
    /\ idx = Len(segments)
    /\ ds_ret' = "dir"
    /\ pc' = "ds_done"
    /\ UNCHANGED <<in_vars, os_error, tv_vars, gs_vars, segments, requests, base_url, idx,
                   dir_created, dir_exists, files, responses, cs_vars,
                   transcripts, gt_vars, parse_vars, ret>>

\* --------------------------------------------------------- parse_curl_command

\* parse_curl_command(curl_command) returns its dictionary
PC_Parse ==
    /\ pc = "pc_entry"
    /\ parsed' = parse_curl_command(curl_command)
    /\ pc' = "pc_done"
    /\ UNCHANGED <<in_vars, os_error, tv_vars, gs_vars, segments, requests, dir_exists, ds_vars,
                   cs_vars, transcripts, ret, gt_vars, curl_command>>

\* -------------------------------------------------------- generate_transcript

\* a return of generate_transcript
GT_Return(result) ==
    /\ gt_ret' = result
    /\ pc' = "gt_done"

\* if not video_path.exists(): return None
GT_VideoMissing ==
    /\ pc = "gt_entry"
    /\ ~video_exists
    /\ GT_Return("None")
    /\ UNCHANGED <<in_vars, os_error, tv_vars, gs_vars, segments, requests, dir_exists, ds_vars,
                   cs_vars, transcripts, ret, video_exists, model_size,
                   models_loaded, transcribe_calls, transcript_file, parse_vars>>

\* if model_size not in valid_models: return None
GT_InvalidModel ==
    /\ pc = "gt_entry"
    /\ video_exists
    /\ ~valid_model(model_size)
    /\ GT_Return("None")
    /\ UNCHANGED <<in_vars, os_error, tv_vars, gs_vars, segments, requests, dir_exists, ds_vars,
                   cs_vars, transcripts, ret, video_exists, model_size,
                   models_loaded, transcribe_calls, transcript_file, parse_vars>>

\* model = whisper.load_model(model_size)
GT_Load ==
    /\ pc = "gt_entry"
    /\ video_exists
    /\ valid_model(model_size)
    /\ models_loaded' = Append(models_loaded, model_size)
    /\ pc' = "gt_loaded"
    /\ UNCHANGED <<in_vars, os_error, tv_vars, gs_vars, segments, requests, dir_exists, ds_vars,
                   cs_vars, transcripts, ret, video_exists, model_size,
                   transcribe_calls, transcript_file, gt_ret, parse_vars>>

\* whisper.load_model raises: except Exception: return None
GT_LoadFails ==
    /\ pc = "gt_entry"
    /\ video_exists
    /\ valid_model(model_size)
    /\ models_loaded' = Append(models_loaded, model_size)
    /\ GT_Return("None")
    /\ UNCHANGED <<in_vars, os_error, tv_vars, gs_vars, segments, requests, dir_exists, ds_vars,
                   cs_vars, transcripts, ret, video_exists, model_size,
                   transcribe_calls, transcript_file, parse_vars>>

\* result = model.transcribe(str(video_path))
GT_Transcribe ==
    /\ pc = "gt_loaded"
    /\ transcribe_calls' = transcribe_calls + 1
    /\ pc' = "gt_transcribed"
    /\ UNCHANGED <<in_vars, os_error, tv_vars, gs_vars, segments, requests, dir_exists, ds_vars,
                   cs_vars, transcripts, ret, video_exists, model_size,
                   models_loaded, transcript_file, gt_ret, parse_vars>>

\* model.transcribe raises: except Exception: return None
GT_TranscribeFails ==
    /\ pc = "gt_loaded"
    /\ transcribe_calls' = transcribe_calls + 1
    /\ GT_Return("None")
    /\ UNCHANGED <<in_vars, os_error, tv_vars, gs_vars, segments, requests, dir_exists, ds_vars,
                   cs_vars, transcripts, ret, video_exists, model_size,
                   models_loaded, transcript_file, parse_vars>>

\* with open(transcript_path, "w") as f: f.write(result["text"]);
\* return transcript_path
GT_Save ==
    /\ pc = "gt_transcribed"
    /\ transcript_file' = "written"
    /\ GT_Return("path")
    /\ UNCHANGED <<in_vars, os_error, tv_vars, gs_vars, segments, requests, dir_exists, ds_vars,
                   cs_vars, transcripts, ret, video_exists, model_size,
                   models_loaded, transcribe_calls, parse_vars>>

\* open(transcript_path, "w") raises, which leaves the file as it was, or
\* the write raises after open has truncated the file, with none or a part of
\* the text in it: except Exception: return None
GT_SaveFails ==
    /\ pc = "gt_transcribed"
    /\ \E outcome \in FailedWrites :
        transcript_file' = IF outcome = "unopened" THEN transcript_file ELSE outcome
    /\ GT_Return("None")
    /\ UNCHANGED <<in_vars, os_error, tv_vars, gs_vars, segments, requests, dir_exists, ds_vars,
                   cs_vars, transcripts, ret, video_exists, model_size,
                   models_loaded, transcribe_calls, parse_vars>>

\* ---------------------------------------- transcribe_videos.transcribe_videos

\* an exception of transcribe_videos, which has no try: it reaches the caller
TV_Raise ==
    /\ tv_status' = "raised"
    /\ pc' = "tv_done"

\* model = whisper.load_model("base"); the glob of downloads/*.mp4
TV_Load ==
    /\ pc = "tv_entry"
    /\ models_loaded' = Append(models_loaded, script_model_size)
    /\ pc' = "tv_loop"
    /\ UNCHANGED <<in_vars, os_error, gs_vars, segments, requests, dir_exists,
                   ds_vars, cs_vars, transcripts, ret, video_exists, model_size,
                   transcribe_calls, transcript_file, gt_ret, parse_vars, tv_vars>>

\* whisper.load_model("base") raises
TV_LoadRaises ==
    /\ pc = "tv_entry"
    /\ models_loaded' = Append(models_loaded, script_model_size)
    /\ TV_Raise
    /\ UNCHANGED <<in_vars, os_error, gs_vars, segments, requests, dir_exists,
                   ds_vars, cs_vars, transcripts, ret, video_exists, model_size,
                   transcribe_calls, transcript_file, gt_ret, parse_vars,
                   downloads, tv_pending, tv_video, tv_files>>

\* the next video of the loop: result = model.transcribe(str(video_file))
TV_Transcribe ==
    /\ pc = "tv_loop"
    /\ \E v \in tv_pending :
        /\ tv_video' = v
        /\ tv_pending' = tv_pending \ {v}
    /\ transcribe_calls' = transcribe_calls + 1
    /\ pc' = "tv_transcribed"
    /\ UNCHANGED <<in_vars, os_error, gs_vars, segments, requests, dir_exists,
                   ds_vars, cs_vars, transcripts, ret, video_exists, model_size,
                   models_loaded, transcript_file, gt_ret, parse_vars,
                   downloads, tv_files, tv_status>>

\* model.transcribe raises
TV_TranscribeRaises ==
    /\ pc = "tv_loop"
    /\ \E v \in tv_pending :
        /\ tv_video' = v
        /\ tv_pending' = tv_pending \ {v}
    /\ transcribe_calls' = transcribe_calls + 1
    /\ TV_Raise
    /\ UNCHANGED <<in_vars, os_error, gs_vars, segments, requests, dir_exists,
                   ds_vars, cs_vars, transcripts, ret, video_exists, model_size,
                   models_loaded, transcript_file, gt_ret, parse_vars,
                   downloads, tv_files>>

\* with open(output_file, "w") as f: f.write(result["text"]); the next
\* iteration
TV_Save ==
    /\ pc = "tv_transcribed"
    /\ tv_files' = [v \in DOMAIN tv_files \cup {tv_video} |->
                        IF v = tv_video THEN "written" ELSE tv_files[v]]
    /\ tv_video' = "none"
    /\ pc' = "tv_loop"
    /\ UNCHANGED <<in_vars, os_error, gs_vars, segments, requests, dir_exists,
                   ds_vars, cs_vars, transcripts, ret, gt_vars, parse_vars,
                   downloads, tv_pending, tv_status>>

\* open(output_file, "w") raises, or the write raises with none or a part of
\* the text in the file
TV_SaveRaises ==
    /\ pc = "tv_transcribed"
    /\ \E outcome \in FailedWrites :
        tv_files' = IF outcome = "unopened"
                    THEN tv_files
                    ELSE [v \in DOMAIN tv_files \cup {tv_video} |->
                             IF v = tv_video THEN outcome ELSE tv_files[v]]
    /\ TV_Raise
    /\ UNCHANGED <<in_vars, os_error, gs_vars, segments, requests, dir_exists,
                   ds_vars, cs_vars, transcripts, ret, gt_vars, parse_vars,
                   downloads, tv_pending, tv_video>>

\* the loop is over: transcribe_videos returns None
TV_Return ==
    /\ pc = "tv_loop"
    /\ tv_pending = {}
    /\ tv_status' = "returned"
    /\ pc' = "tv_done"
    /\ UNCHANGED <<in_vars, os_error, gs_vars, segments, requests, dir_exists,
                   ds_vars, cs_vars, transcripts, ret, gt_vars, parse_vars,
                   downloads, tv_pending, tv_video, tv_files>>

\* ------------------------------------------------------------ download_video

\* get_segment_urls raised: except Exception: return None
DV_ResolveRaised ==
    /\ entry = "download_video"
    /\ pc = "gs_done"
    /\ gs_status = "raised"
    /\ ret' = "None"
    /\ pc' = "done"
    /\ UNCHANGED <<in_vars, os_error, tv_vars, gs_vars, segments, requests, dir_exists, ds_vars,
                   cs_vars, transcripts, gt_vars, parse_vars>>

\* if not segments: return None
DV_NoSegments ==
    /\ entry = "download_video"
    /\ pc = "gs_done"
    /\ gs_status = "returned"
    /\ segments = << >>
    /\ ret' = "None"
    /\ pc' = "done"
    /\ UNCHANGED <<in_vars, os_error, tv_vars, gs_vars, segments, requests, dir_exists, ds_vars,
                   cs_vars, transcripts, gt_vars, parse_vars>>

\* base_url = m3u8_url.rsplit('/', 1)[0]; the call of download_segments.
\* The locals of the returned get_segment_urls frames are gone.
DV_Acquire ==
    /\ entry = "download_video"
    /\ pc = "gs_done"
    /\ gs_status = "returned"
    /\ segments # << >>
    /\ base_url' = rsplit_slash(m3u8_url)
    /\ content' = << >>
    /\ cur_url' = << >>
    /\ pc' = "ds_entry"
    /\ UNCHANGED <<in_vars, os_error, tv_vars, depth, gs_status, gs_end, segments, requests, idx,
                   dir_created, dir_exists, files, responses, ds_ret, cs_vars,
                   transcripts, gt_vars, parse_vars, ret>>

\* if not segments_dir: return None
DV_AcquireFailed ==
    /\ entry = "download_video"
    /\ pc = "ds_done"
    /\ ds_ret = "None"
    /\ ret' = "None"
    /\ pc' = "done"
    /\ UNCHANGED <<in_vars, os_error, tv_vars, gs_vars, segments, requests, dir_exists, ds_vars,
                   cs_vars, transcripts, gt_vars, parse_vars>>

\* combine_segments(segments_dir, output_name): file_list.txt is written and
\* the assembly process is run once
DV_Combine ==
    /\ entry = "download_video"
    /\ pc = "ds_done"
    /\ ds_ret = "dir"
    /\ file_list' = concat_list(DOMAIN files)
    /\ \E outcome \in AssemblyOutcomes :
        /\ asm_runs' = Append(asm_runs, outcome)
        /\ combine_ret' = combine_result(outcome)
    /\ pc' = "combined"
    /\ UNCHANGED <<in_vars, os_error, tv_vars, gs_vars, segments, requests, dir_exists, ds_vars,
                   output_exists, transcripts, gt_vars, parse_vars, ret>>

\* combine_segments: open(file_list, 'w') raises, or the write raises with
\* none or the first lines of the list in file_list.txt, before the assembly
\* process is started: except Exception: return None
DV_ListFails ==
    /\ entry = "download_video"
    /\ pc = "ds_done"
    /\ ds_ret = "dir"
    /\ \E n \in 0..Len(concat_list(DOMAIN files)) :
        /\ n < Len(concat_list(DOMAIN files)) \/ DOMAIN files = {}
        /\ file_list' = SubSeq(concat_list(DOMAIN files), 1, n)
    /\ os_error' = "file_list"
    /\ combine_ret' = "None"
    /\ pc' = "combined"
    /\ UNCHANGED <<in_vars, gs_vars, segments, requests, dir_exists, ds_vars,
                   asm_runs, output_exists, transcripts, gt_vars,
                   parse_vars, ret, tv_vars>>

\* output_file is None: return None
DV_AssemblyFailed ==
    /\ pc = "combined"
    /\ combine_ret = "None"
    /\ ret' = "None"
    /\ pc' = "done"
    /\ UNCHANGED <<in_vars, os_error, tv_vars, gs_vars, segments, requests, dir_exists, ds_vars,
                   cs_vars, transcripts, gt_vars, parse_vars>>

\* output_file.exists() is false: return None
DV_OutputMissing ==
    /\ pc = "combined"
    /\ combine_ret = "path"
    /\ output_exists' = FALSE
    /\ ret' = "None"
    /\ pc' = "done"
    /\ UNCHANGED <<in_vars, os_error, tv_vars, gs_vars, segments, requests, dir_exists, ds_vars,
                   file_list, asm_runs, combine_ret, transcripts, gt_vars, parse_vars>>

after_saved_always(want) == "transcribe"

\* if generate_transcript: the transcript step, else straight to cleanup
after_saved(want) == IF want THEN "transcribe" ELSE "cleanup"

\* output_file and output_file.exists()
DV_Saved ==
    /\ pc = "combined"
    /\ combine_ret = "path"
    /\ output_exists' = TRUE
    /\ pc' = after_saved(want_transcript)
    /\ UNCHANGED <<in_vars, os_error, tv_vars, gs_vars, segments, requests, dir_exists, ds_vars,
                   file_list, asm_runs, combine_ret, transcripts, gt_vars, parse_vars, ret>>

\* transcript_path = self.generate_transcript(output_file): the call, with
\* the default model_size
DV_Transcribe ==
    /\ pc = "transcribe"
    /\ video_exists' = output_exists
    /\ model_size' = default_model_size
    /\ pc' = "gt_entry"
    /\ UNCHANGED <<in_vars, os_error, tv_vars, gs_vars, segments, requests, dir_exists, ds_vars,
                   cs_vars, transcripts, ret, models_loaded, transcribe_calls,
                   transcript_file, gt_ret, parse_vars>>

\* generate_transcript has returned a transcript path or None, which
\* download_video only logs
DV_Transcribed ==
    /\ entry = "download_video"
    /\ pc = "gt_done"
    /\ transcripts' = Append(transcripts, [model_size |-> model_size, result |-> gt_ret])
    /\ pc' = "cleanup"
    /\ UNCHANGED <<in_vars, os_error, tv_vars, gs_vars, segments, requests, dir_exists, ds_vars,
                   cs_vars, ret, gt_vars, parse_vars>>

\* self.cleanup(segments_dir): shutil.rmtree removes the working area;
\* return output_file
DV_Cleanup ==
    /\ pc = "cleanup"
    /\ dir_exists' = FALSE
    /\ files' = << >>
    /\ ret' = "path"
    /\ pc' = "done"
    /\ UNCHANGED <<in_vars, os_error, tv_vars, gs_vars, segments, requests, base_url, idx,
                   dir_created, responses, ds_ret, cs_vars, transcripts, gt_vars, parse_vars>>

\* self.cleanup(segments_dir): shutil.rmtree raises after it has removed
\* none, some or all of the files of the working area, which stays; cleanup
\* logs the exception; return output_file
DV_CleanupFails ==
    /\ pc = "cleanup"
    /\ \E kept \in SUBSET DOMAIN files :
        files' = [i \in kept |-> files[i]]
    /\ ret' = "path"
    /\ pc' = "done"
    /\ UNCHANGED <<in_vars, os_error, tv_vars, gs_vars, segments, requests, base_url, idx,
                   dir_created, dir_exists, responses, ds_ret, cs_vars, transcripts,
                   gt_vars, parse_vars>>

\* ---------------------------------------------------------- specifications

Resolve ==
    \/ GS_InvalidUrl
    \/ GS_RequestError
    \/ GS_Segments
    \/ GS_NoReferences
    \/ GS_Recurse
    \/ GS_RecursionError
    \/ GS_RecursionSwallowed

\* a batch: the loop over a non-empty list
Batch ==
    \/ DS_Mkdtemp
    \/ DS_MkdtempFails
    \/ DS_RequestError
    \/ DS_BadContentLength
    \/ DS_DeclaredTooLarge
    \/ DS_Stream
    \/ DS_WriteFails
    \/ DS_Return

Acquire == DS_NoSegments \/ Batch

\* the steps of generate_transcript past its two argument checks
Transcription ==
    \/ GT_Load
    \/ GT_LoadFails
    \/ GT_Transcribe
    \/ GT_TranscribeFails
    \/ GT_Save
    \/ GT_SaveFails

Transcribe == GT_VideoMissing \/ GT_InvalidModel \/ Transcription

\* the steps of transcribe_videos
TranscribeVideos ==
    \/ TV_Load
    \/ TV_LoadRaises
    \/ TV_Transcribe
    \/ TV_TranscribeRaises
    \/ TV_Save
    \/ TV_SaveRaises
    \/ TV_Return

Pipeline ==
    \/ DV_ResolveRaised
    \/ DV_NoSegments
    \/ DV_Acquire
    \/ DV_AcquireFailed
    \/ DV_Combine
    \/ DV_ListFails
    \/ DV_AssemblyFailed
    \/ DV_OutputMissing
    \/ DV_Saved
    \/ DV_Transcribe
    \/ DV_Transcribed
    \/ DV_Cleanup
    \/ DV_CleanupFails

\* a call of download_video, which passes download_segments a non-empty
\* list only (the empty one returns before the call)
Init == InitVideo
Next == Resolve \/ Batch \/ Pipeline \/ Transcription
Spec == Init /\ [][Next]_vars

\* a call of get_segment_urls
SpecResolve == InitResolve /\ [][Resolve]_vars

\* a call of download_segments
SpecAcquire == InitAcquire /\ [][Acquire]_vars

\* a call of parse_curl_command
SpecParse == InitParse /\ [][PC_Parse]_vars

\* a call of transcribe_videos
SpecTranscribeVideos == InitTranscribeVideos /\ [][TranscribeVideos]_vars

\* a call of generate_transcript
SpecTranscribe == InitTranscribe /\ [][Transcribe]_vars

\* ------------------------------------------------------------------ claims

\* Stated from the claims' words, not from the operators above.

\* the segment requests issued so far, in order (they are the streamed ones)
IsSegmentRequest(r) == r.stream
SegmentRequests == SelectSeq(requests, IsSegmentRequest)

\* the positions of the lines of doc that end in .ts
TsPositions(doc) ==
    {k \in 1..Len(doc) :
        /\ Len(doc[k]) >= 3
        /\ doc[k][Len(doc[k]) - 2] = "."
        /\ doc[k][Len(doc[k]) - 1] = "t"
        /\ doc[k][Len(doc[k])] = "s"}

\* the k-th smallest member of a set of numbers
Nth(S, k) == CHOOSE x \in S : Cardinality({y \in S : y < x}) = k - 1

\* the lines of doc that end in .ts, in document order
TsLines(doc) ==
    [k \in 1..Cardinality(TsPositions(doc)) |-> doc[Nth(TsPositions(doc), k)]]

\* a line without its leading spaces
RECURSIVE Unindented(_)
Unindented(line) ==
    IF line # << >> /\ Head(line) = " " THEN Unindented(Tail(line)) ELSE line

\* the first n entries of a sequence (all of it when it is shorter)
FirstN(s, n) == [k \in 1..(IF Len(s) < n THEN Len(s) ELSE n) |-> s[k]]

\* everything before the final '/' of a URL that has one
DirectoryOf(url) ==
    LET cut == CHOOSE k \in 1..Len(url) :
                   /\ url[k] = "/"
                   /\ \A j \in (k + 1)..Len(url) : url[j] # "/"
    IN  [j \in 1..(cut - 1) |-> url[j]]

\* the URL the claim C10 expects for an entry of a playlist at P
ExpectedSegmentUrl(P, e) ==
    IF e[1] = "/" THEN FixedOrigin \o e ELSE DirectoryOf(P) \o <<"/">> \o e

\* no answer so far carried a content-length header that is no integer
WellFormedSoFar == \A k \in 1..Len(responses) : responses[k].header # "bad"

\* C1: when download_video has returned after a working area was created,
\* the working area no longer exists, whether the attempt succeeded or failed.
C1_WorkingAreaGone ==
    (entry = "download_video" /\ pc = "done" /\ dir_created) => ~dir_exists

\* C2: after download_segments has returned the working area, no segment
\* whose declared content-length or whose streamed body exceeded
\* max_segment_size has a file segment_i, and every other segment whose
\* request succeeded has one.
C2_OversizeLeavesNoFile ==
    (pc = "ds_done" /\ ds_ret = "dir") =>
        \A k \in 1..Len(responses) :
            LET r == responses[k]
                oversize == \/ (r.header = "number" /\ r.length > max_segment_size)
                            \/ r.body > max_segment_size
            IN  /\ (r.status = "ok" /\ oversize) => (k - 1) \notin DOMAIN files
                /\ (r.status = "ok" /\ ~oversize /\ ~r.stream_error) =>
                       (k - 1) \in DOMAIN files

\* C3: with the working area created, every answer either a request
\* failure or a well-formed response, and no segment file failing to be
\* written, download_segments goes through the whole list: while it runs it
\* has issued one request per segment reached, whatever failed before, and it
\* ends returning the working area with one request per segment of the list,
\* also when every request failed.
C3_FailuresDoNotAbort ==
    (/\ entry = "download_segments" /\ dir_created
     /\ WellFormedSoFar /\ os_error = "none") =>
        \/ /\ pc = "ds_loop"
           /\ Len(requests) = idx
           /\ idx <= Len(segments)
        \/ /\ pc = "ds_done"
           /\ ds_ret = "dir"
           /\ Len(requests) = Len(segments)

\* C3's case: a list of max_segments entries, every request failed, and the
\* working area was returned with no file in it
C3_Witness ==
    /\ entry = "download_segments"
    /\ pc = "ds_done"
    /\ ds_ret = "dir"
    /\ Len(segments) = max_segments
    /\ Len(requests) = max_segments
    /\ \A k \in 1..Len(responses) : responses[k].status = "error"
    /\ DOMAIN files = {}

\* C4: download_video returns a path only when the one assembly run of the
\* attempt exited successfully; after a failed run (non-zero exit, timeout,
\* tool missing) it returns None.
C4_PathOnlyAfterAssembly ==
    /\ ret = "path" => asm_runs = <<"ok">>
    /\ (pc = "done" /\ asm_runs # << >> /\ asm_runs[1] # "ok") => ret = "None"

\* C4's case: the assembly run timed out and download_video returned None
C4_Witness ==
    /\ pc = "done"
    /\ asm_runs = <<"timeout">>
    /\ ret = "None"

\* C5: get_segment_urls called with an invalid URL issues no request and
\* returns the empty list; a failed request for the playlist or for a nested
\* playlist ends the call returning the empty list, not raising.
C5_ErrorsGiveEmptyList ==
    /\ m3u8_url \in InvalidUrls => requests = << >>
    /\ (pc = "gs_done" /\ m3u8_url \in InvalidUrls) =>
           (gs_status = "returned" /\ segments = << >>)
    /\ (pc = "gs_done" /\ gs_end \in {"invalid_url", "request_error"}) =>
           (gs_status = "returned" /\ segments = << >>)

\* C5's case: the request for a nested playlist failed and the call
\* returned the empty list
C5_Witness ==
    /\ pc = "gs_done"
    /\ gs_end = "request_error"
    /\ Len(requests) = 2
    /\ gs_status = "returned"
    /\ segments = << >>

\* C6: every call of get_segment_urls ends returning a list, whatever the
\* playlist documents refer to: a call that has ended has returned.
C6_AlwaysReturnsAList ==
    pc = "gs_done" => gs_status = "returned"

\* C7 as stated: for a document with between 1 and max_segments lines ending
\* in .ts, the list returned is exactly those lines, in document order.
C7_ExactLines ==
    (pc = "gs_done" /\ gs_end = "segments"
        /\ Cardinality(TsPositions(content)) <= max_segments) =>
        segments = TsLines(content)

\* C7 as amended: the list returned is those lines, each without its leading
\* whitespace, each once, in document order, whatever lines are interleaved.
C7_UnindentedLines ==
    (pc = "gs_done" /\ gs_end = "segments"
        /\ Cardinality(TsPositions(content)) <= max_segments) =>
        /\ Len(segments) = Cardinality(TsPositions(content))
        /\ \A k \in 1..Len(segments) : segments[k] = Unindented(TsLines(content)[k])

\* C7's case: an indented segment line, a tag, a rooted segment line
C7_Witness ==
    /\ pc = "gs_done"
    /\ gs_end = "segments"
    /\ content = << <<" ","a",".","t","s">>, <<"#","x">>, <<"/","c",".","t","s">> >>
    /\ segments = << <<"a",".","t","s">>, <<"/","c",".","t","s">> >>

\* C8: the list get_segment_urls returns has at most max_segments entries,
\* and is the first max_segments segment entries of the document they come
\* from, the requested playlist or a nested one.
C8_AtMostMaxSegments ==
    (pc = "gs_done" /\ gs_status = "returned") =>
        /\ Len(segments) <= max_segments
        /\ gs_end = "segments" =>
               /\ Len(segments) = Len(FirstN(TsLines(content), max_segments))
               /\ \A k \in 1..Len(segments) :
                      segments[k] = Unindented(TsLines(content)[k])

\* C8's case: a nested playlist with more than max_segments segment lines
C8_Witness ==
    /\ pc = "gs_done"
    /\ gs_end = "segments"
    /\ Len(requests) = 2
    /\ Cardinality(TsPositions(content)) = max_segments + 1
    /\ Len(segments) = max_segments

\* C9: download_segments called with an empty list issues no request,
\* creates no working area and returns None.
C9_EmptyListFails ==
    (entry = "download_segments" /\ segments = << >>) =>
        /\ requests = << >>
        /\ ~dir_created
        /\ pc \in {"ds_entry", "ds_done"}
        /\ pc = "ds_done" => ds_ret = "None"

\* C9's case: the call with the empty list has returned
C9_Witness ==
    /\ entry = "download_segments"
    /\ segments = << >>
    /\ pc = "ds_done"
    /\ ds_ret = "None"

\* C10: the segment requests of download_video(P, ...) are, in list order,
\* the directory of P joined with '/' to the entry, or the fixed origin
\* followed by the entry when it starts with '/'; there is one per entry
\* reached, and one per entry of the list once acquisition returns the
\* working area.
C10_SegmentUrls ==
    entry = "download_video" =>
        LET sent == SegmentRequests
        IN  /\ Len(sent) <= Len(segments)
            /\ \A k \in 1..Len(sent) :
                   sent[k].url = ExpectedSegmentUrl(m3u8_url, segments[k])
            /\ ds_ret = "dir" => Len(sent) = Len(segments)

\* C10's case: a relative and a rooted entry, both requested
C10_Witness ==
    /\ entry = "download_video"
    /\ ds_ret = "dir"
    /\ m3u8_url = <<"h","t","t","p","s",":","/","/","x","/","v","/","p",".","m","3","u","8">>
    /\ segments = << <<"a",".","t","s">>, <<"/","c",".","t","s">> >>
    /\ Len(SegmentRequests) = 2
    /\ SegmentRequests[1].url = <<"h","t","t","p","s",":","/","/","x","/","v","/","a",".","t","s">>
    /\ SegmentRequests[2].url = <<"h","t","t","p","s",":","/","/","e","m","b","e","d","-","c","l","o","u","d","f","r","o","n","t",".","w","i","s","t","i","a",".","c","o","m","/","c",".","t","s">>

\* the model selectors the claim C11 names
RecognizedSelectors == {"tiny", "base", "small", "medium", "large"}

\* generate_transcript stands at its entry with a selector outside the
\* recognized ones or with a video path that does not exist
BadTranscriptArguments ==
    /\ entry = "generate_transcript"
    /\ pc = "gt_entry"
    /\ (model_size \notin RecognizedSelectors \/ ~video_exists)

\* C11: generate_transcript called with a model selector outside tiny, base,
\* small, medium, large, or with a video path that does not exist, returns
\* failure in its next step: no model has been loaded, no transcription
\* invoked, and the transcript file is as it was (absent or unchanged).
C11_BadArgumentsFailEarly ==
    [][BadTranscriptArguments =>
          /\ pc' = "gt_done"
          /\ gt_ret' = "None"
          /\ models_loaded' = << >>
          /\ transcribe_calls' = 0
          /\ transcript_file' = transcript_file]_vars

\* an unrecognized selector with an existing video and a transcript of an
\* earlier run: the call has returned failure and the old transcript is there
C11_Witness ==
    /\ entry = "generate_transcript"
    /\ pc = "gt_done"
    /\ video_exists
    /\ model_size = "large-v2"
    /\ gt_ret = "None"
    /\ transcript_file = "old"

\* the URL of the URL token, and the name and value of each -H pair that
\* has a colon, as a reader of the captured command takes them
CapturedUrl == <<"h","t","t","p","s",":","/","/","x","/","s",".","t","s">>
CapturedPair(flag) ==
    CASE flag = <<"-","H"," ","'","A",":"," ","b","'">> -> <<<<"A">>, <<"b">>>>
      [] flag = <<"-","H"," ","'","R",":","h","t","t","p",":","/","/","y","'">> -> <<<<"R">>, <<"h","t","t","p",":","/","/","y">>>>
PairsWithColon == {<<"-","H"," ","'","A",":"," ","b","'">>, <<"-","H"," ","'","R",":","h","t","t","p",":","/","/","y","'">>}
CapturedPairs(sh) ==
    {CapturedPair(sh[k]) : k \in {j \in 1..Len(sh) : sh[j] \in PairsWithColon}}

\* parse_curl_command has returned for the command written from the tokens sh
ParsedShape(p, sh) == pc = "pc_done" /\ curl_command = p \o join_blank(sh)

\* parse_curl_command has returned for a command whose last quote is open
ParsedUnclosed(p, sh) ==
    pc = "pc_done" /\ curl_command = p \o join_blank(sh) \o <<" ","'","x">>

\* a result without a URL and with an empty header map
NothingParsed == parsed.returned /\ ~parsed.url.present /\ parsed.headers = {}

\* C12 as stated: for a captured command of one URL token and zero or more
\* -H pairs in any order, parse_curl_command returns the URL token as the
\* url and exactly the name/value pairs of the -H tokens that have a colon;
\* on a tokenization failure it returns no URL and an empty header map.
C12_AnyOrder ==
    \A p \in CurlPrefixes, sh \in CurlShapes :
        /\ ParsedShape(p, sh) =>
              /\ parsed.returned
              /\ parsed.url = [present |-> TRUE, text |-> CapturedUrl]
              /\ parsed.headers = CapturedPairs(sh)
        /\ ParsedUnclosed(p, sh) => NothingParsed

\* C12, amended: for a captured command of one URL token and zero or more
\* -H pairs, parse_curl_command returns exactly the name/value pairs of the
\* -H tokens that have a colon, whatever the order of the tokens, and returns
\* the URL token as the url when the URL token comes before every -H pair;
\* it returns in every case, and on a tokenization failure it returns no URL
\* and an empty header map.
C12_UrlBeforeHeaders ==
    \A p \in CurlPrefixes, sh \in CurlShapes :
        /\ ParsedShape(p, sh) =>
              /\ parsed.returned
              /\ parsed.headers = CapturedPairs(sh)
              /\ sh[1] = UrlToken =>
                    parsed.url = [present |-> TRUE, text |-> CapturedUrl]
        /\ ParsedUnclosed(p, sh) => NothingParsed

\* the URL, then a pair without a colon, then a pair with one: the URL and
\* the one pair have been returned
C12_Witness ==
    /\ pc = "pc_done"
    /\ curl_command = <<"c","u","r","l"," ","'","h","t","t","p","s",":","/","/","x","/","s",".","t","s","'"," ","-","H"," ","'","e","'"," ","-","H"," ","'","A",":"," ","b","'">>
    /\ parsed.url = [present |-> TRUE, text |-> CapturedUrl]
    /\ parsed.headers = {<<<<"A">>, <<"b">>>>}

\* generate_transcript has been called by download_video and has not returned
TranscriptionRunning == pc \in {"gt_entry", "gt_loaded", "gt_transcribed"}

\* the number of transcription steps download_video has started
TranscriptionsStarted ==
    Len(transcripts) + (IF TranscriptionRunning \/ pc = "gt_done" THEN 1 ELSE 0)

\* the working area was created and has been removed
WorkingAreaRemoved == dir_created /\ ~dir_exists

\* C13: in a run of download_video the steps come in strict order: no
\* segment request before resolution has returned a non-empty list (and no
\* playlist request after a segment request), assembly at most once and only
\* after every segment of the list has been attempted, transcription at most
\* once, only when requested and only after assembly succeeded, the working
\* area removed only after assembly and a requested transcription have
\* finished; and when resolution returns an empty list no working area is
\* created and neither acquisition nor assembly is invoked.
C13_StepsInOrder ==
    entry = "download_video" =>
        /\ SegmentRequests # << >> => (gs_status = "returned" /\ segments # << >>)
        /\ \A i \in 1..(Len(requests) - 1) :
              requests[i].stream => requests[i + 1].stream
        /\ Len(asm_runs) <= 1
        /\ asm_runs # << >> =>
              /\ Len(SegmentRequests) = Len(segments)
              /\ idx = Len(segments)
        /\ TranscriptionsStarted <= 1
        /\ Len(models_loaded) <= 1
        /\ transcribe_calls <= 1
        /\ (TranscriptionsStarted = 1 \/ models_loaded # << >> \/ transcribe_calls > 0) =>
              (want_transcript /\ asm_runs = <<"ok">> /\ output_exists)
        /\ WorkingAreaRemoved =>
              /\ asm_runs = <<"ok">>
              /\ ~TranscriptionRunning
              /\ want_transcript => Len(transcripts) = 1
        /\ (gs_status = "returned" /\ segments = << >>) =>
              /\ ~dir_created
              /\ SegmentRequests = << >>
              /\ responses = << >>
              /\ asm_runs = << >>
              /\ TranscriptionsStarted = 0

\* a run with a playlist of max_segments entries, a nested playlist before
\* it, transcription requested: every step has run and the working area is
\* removed
C13_Witness ==
    /\ entry = "download_video"
    /\ pc = "done"
    /\ ret = "path"
    /\ want_transcript
    /\ Len(requests) - Len(SegmentRequests) = 2
    /\ Len(SegmentRequests) = max_segments
    /\ asm_runs = <<"ok">>
    /\ transcribe_calls = 1
    /\ Len(transcripts) = 1
    /\ WorkingAreaRemoved

\* C14: the concatenation list written by combine_segments names, in
\* ascending index order, exactly the segment files that exist in the
\* working area, also when failed or oversize segments left gaps.
C14_ListNamesExistingFiles ==
    (entry = "download_video" /\ asm_runs # << >> /\ dir_exists) =>
        /\ {file_list[k] : k \in 1..Len(file_list)} = DOMAIN files
        /\ \A j, k \in 1..Len(file_list) : j < k => file_list[j] < file_list[k]

\* the playlist requests issued so far, in order (they are not streamed)
IsPlaylistRequest(r) == ~r.stream
PlaylistRequests == SelectSeq(requests, IsPlaylistRequest)

\* the URL of the playlist document that listed the segments: the last
\* playlist fetched
ListingPlaylist == PlaylistRequests[Len(PlaylistRequests)].url

\* the URLs a nested reference of a playlist at P may stand for: an absolute
\* reference itself, a relative one joined to the directory of P
NestedTargets(P) ==
    {<<"h","t","t","p",":","/","/","y","/","m",".","m","3","u","8">>, DirectoryOf(P) \o <<"/">> \o <<"s","/","n",".","m","3","u","8">>}

\* C15: when download_video resolves a master playlist to a nested playlist,
\* the nested reference is resolved against the directory of the playlist
\* that contains it, and every relative segment entry is requested relative
\* to the directory of the playlist document that listed it, not the
\* directory of the URL passed in.
C15_RelativeToListingPlaylist ==
    entry = "download_video" =>
        /\ \A k \in 2..Len(PlaylistRequests) :
              PlaylistRequests[k].url \in NestedTargets(PlaylistRequests[k - 1].url)
        /\ \A k \in 1..Len(SegmentRequests) :
              segments[k][1] # "/" =>
                  SegmentRequests[k].url =
                      DirectoryOf(ListingPlaylist) \o <<"/">> \o segments[k]

\* the names of a header set
HeaderNames(hs) == {h[1] : h \in hs}

\* the fixed default set: it is self.headers and has the three names
IsDefaultSet(hs) ==
    /\ hs = DefaultHeaders
    /\ HeaderNames(hs) = {"User-Agent", "Accept", "Accept-Language"}

\* C16 as stated: within one download_video attempt every request (playlist,
\* nested playlist, segment) carries the caller-supplied header map alone
\* when one is supplied, and the fixed default set only when none is.
C16_SuppliedMapAlone ==
    entry = "download_video" =>
        \A k \in 1..Len(requests) :
            IF custom_headers.given
            THEN requests[k].headers = custom_headers.map
            ELSE IsDefaultSet(requests[k].headers)

\* C16, amended: within one download_video attempt every request (playlist,
\* nested playlist, segment) carries the same header set: the
\* caller-supplied header map alone, with no default header merged in, when
\* a non-empty one is supplied, and the fixed default set (User-Agent,
\* Accept, Accept-Language) when none or an empty one is supplied.
C16_NonEmptyMapAlone ==
    entry = "download_video" =>
        /\ \A k \in 1..Len(requests) : requests[k].headers = requests[1].headers
        /\ \A k \in 1..Len(requests) :
              IF custom_headers.given /\ custom_headers.map # {}
              THEN requests[k].headers = custom_headers.map
              ELSE IsDefaultSet(requests[k].headers)

\* a supplied map of one header: a playlist, a nested playlist and
\* max_segments segments have been requested with it
C16_Witness ==
    /\ entry = "download_video"
    /\ custom_headers.given
    /\ custom_headers.map = {<<"Cookie", "k">>}
    /\ Len(PlaylistRequests) = 2
    /\ Len(SegmentRequests) = max_segments
    /\ \A k \in 1..Len(requests) : requests[k].headers = {<<"Cookie", "k">>}

\* a URL that ends with the text of a segment entry
RequestsEntry(url, e) ==
    /\ Len(url) >= Len(e)
    /\ \A k \in 1..Len(e) : url[Len(url) - Len(e) + k] = e[k]

\* C17: at every point of download_segments the segments are fetched one at
\* a time in increasing index order (the k-th request is for the k-th entry
\* and is answered before the next one is issued), each file segment_i holds
\* only bytes received from the request for the entry at position i
\* (zero-based), and the index of a later segment is not shifted down when
\* an earlier one is skipped or fails.
C17_FileIndexIsListPosition ==
    entry = "download_segments" =>
        /\ Len(requests) <= Len(segments)
        /\ Len(responses) = Len(requests)
        /\ idx <= Len(requests)
        /\ \A k \in 1..Len(requests) :
              requests[k].stream /\ RequestsEntry(requests[k].url, segments[k])
        /\ \A i \in DOMAIN files :
              /\ i \in 0..(Len(requests) - 1)
              /\ files[i].request = i + 1
              /\ responses[i + 1].status = "ok"

\* the first segment failed and the last one was downloaded: the call has
\* returned and the only file carries the last index
C17_Witness ==
    /\ entry = "download_segments"
    /\ pc = "ds_done"
    /\ Len(segments) = max_segments
    /\ Len(responses) = max_segments
    /\ responses[1].status = "error"
    /\ DOMAIN files = {max_segments - 1}
    /\ files[max_segments - 1].request = max_segments

====
